---- MODULE Spec2Model ----
(***************************************************************************)
(* Model of model-specific-evals/mxbai-large.py: the two prompted encoder  *)
(* adapters (CustomDRESModel, CustomRerankingModel), the statistics of     *)
(* RerankingTask.load_data, and the module-level script that runs the      *)
(* retrieval tasks, then the reranking tasks, then releases the model.     *)
(*                                                                         *)
(* Strings are sequences of one-character strings, so that str.strip(),    *)
(* len() and concatenation are computed, not assumed.                      *)
(***************************************************************************)
EXTENDS Integers, Sequences, FiniteSets, TLC

VARIABLES
    call,     \* the adapter method call being served (adapter, method, arguments)
    encode,   \* what reached the base model's encode(): sentences and keyword arguments
    loaded,   \* a load_data call on its own: the split read and what load_data did
    pc,              \* the statement of the script that runs next
    it,              \* position of the running for loop in its task list
    task,            \* binding of the module-level name 'task'
    model,           \* binding of the module-level name 'model'
    retriever,       \* binding of the module-level name 'retriever'
    reranking_task,  \* binding of the module-level name 'reranking_task'
    self,            \* the RerankingTask under construction
    dataset,         \* the split load_data read from disk
    loads,           \* number of embedding models loaded so far
    released,        \* number of torch.cuda.empty_cache() calls
    trace,           \* log lines written and external calls made, in order
    failed           \* the uncaught exception that ended the run, if any

adapterVars == <<call, encode>>
statsVars == <<loaded>>
runVars == <<pc, it, task, model, retriever, reranking_task, self, dataset, loads,
             released, trace, failed>>
vars == <<call, encode, loaded, pc, it, task, model, retriever, reranking_task, self,
          dataset, loads, released, trace, failed>>

-----------------------------------------------------------------------------
(* Bounds of the inputs *)

MaxLen == 1       \* longest title / text / query string
MaxDocs == 2      \* longest corpus / query list handed to an adapter
MaxSamples == 2   \* most samples in a reranking split
MaxCands == 2     \* most positives (negatives) of one reranking sample
MaxRunSamples == 1  \* most samples of a split read during a whole run

-----------------------------------------------------------------------------
(* Strings *)

Chars == {"a", " "}

SeqsUpTo(S, n) == UNION {[1..k -> S] : k \in 0..n}

Strings == SeqsUpTo(Chars, MaxLen)

\* str.isspace() on one character
IsSpace(c) == c = " "

RECURSIVE lstrip(_)
lstrip(s) == IF s # <<>> /\ IsSpace(Head(s)) THEN lstrip(Tail(s)) ELSE s

RECURSIVE rstrip(_)
rstrip(s) == IF s # <<>> /\ IsSpace(s[Len(s)]) THEN rstrip(SubSeq(s, 1, Len(s) - 1)) ELSE s

\* str.strip()
strip(s) == rstrip(lstrip(s))

\* dict.get(key, default)
get(d, key, default) == IF key \in DOMAIN d THEN d[key] ELSE default

\* dict.pop(key, None) as far as the dictionary is concerned
pop(d, key) == [k \in DOMAIN d \ {key} |-> d[k]]

\* f(**a, **b) where the key sets are disjoint
Merge(a, b) == [k \in DOMAIN a \cup DOMAIN b |-> IF k \in DOMAIN a THEN a[k] ELSE b[k]]

-----------------------------------------------------------------------------
(* The adapters *)

QUERY_PROMPT == "Represent this sentence for searching relevant passages: "

\* A corpus document: 'text' is required, 'title' is optional.
Docs == [{"text"} -> Strings] \cup [{"title", "text"} -> Strings]

Corpora == SeqsUpTo(Docs, MaxDocs)

SentenceLists == SeqsUpTo(Strings, MaxDocs)

\* Keyword arguments a caller may pass, and the values tried for each.
KwKeys == {"batch_size", "show_progress_bar", "prompt_name", "request_qid",
           "convert_to_tensor"}

KwVal(k) == IF k = "batch_size" THEN {"16", "32"}
            ELSE IF k = "show_progress_bar" THEN {"True"}
            ELSE IF k = "prompt_name" THEN {"retrieval-s2p"}
            ELSE IF k = "request_qid" THEN {"q1"}
            ELSE {"True"}

CallerKwargs ==
    UNION {{f \in [K -> UNION {KwVal(k) : k \in KwKeys}] : \A k \in K : f[k] \in KwVal(k)}
           : K \in SUBSET KwKeys}

\* encode_kwargs of the evaluators built by the script
EncodeKwargs == [k \in {"batch_size", "show_progress_bar"} |->
                    IF k = "batch_size" THEN "32" ELSE "True"]

NoCall == [status |-> "none"]

\* self.model.encode(sentences, **fixed, **kwargs): Python raises TypeError
\* when a keyword is given twice, and then nothing reaches the base encoder.
ModelEncode(sentences, fixed, kwargs) ==
    IF DOMAIN fixed \cap DOMAIN kwargs # {}
    THEN [status |-> "TypeError"]
    ELSE [status |-> "called", sentences |-> sentences, kw |-> Merge(fixed, kwargs)]

\* Buggy variant: the separator is added whether or not it is needed and the
\* result is not trimmed.
CorpusSentencesNoStrip(corpus) ==
    [i \in 1..Len(corpus) |->
        get(corpus[i], "title", <<>>) \o <<" ">> \o corpus[i]["text"]]

\* The sentences CustomDRESModel.encode_corpus builds from the documents.
CorpusSentences(corpus) ==
    [i \in 1..Len(corpus) |->
        strip(get(corpus[i], "title", <<>>) \o <<" ">> \o corpus[i]["text"])]

\* CustomDRESModel.encode_queries(self, queries, *, batch_size, **kwargs)
DRES_encode_queries(queries, kw) ==
    /\ "batch_size" \in DOMAIN kw
    /\ call' = [adapter |-> "CustomDRESModel", method |-> "encode_queries",
                input |-> queries, kw |-> kw]
    /\ encode' = ModelEncode(queries,
                     [k \in {"prompt", "batch_size"} |->
                         IF k = "prompt" THEN QUERY_PROMPT ELSE kw["batch_size"]],
                     pop(kw, "batch_size"))
    /\ UNCHANGED <<statsVars, runVars>>

\* CustomDRESModel.encode_corpus(self, corpus, batch_size, **kwargs)
DRES_encode_corpus(corpus, kw) ==
    /\ "batch_size" \in DOMAIN kw
    /\ call' = [adapter |-> "CustomDRESModel", method |-> "encode_corpus",
                input |-> corpus, kw |-> kw]
    /\ encode' = ModelEncode(CorpusSentences(corpus),
                     [k \in {"batch_size"} |-> kw["batch_size"]],
                     pop(pop(kw, "batch_size"), "request_qid"))
    /\ UNCHANGED <<statsVars, runVars>>

\* CustomRerankingModel.encode_queries(self, queries, *, prompt_name=None, **kwargs)
Rerank_encode_queries(queries, kw) ==
    /\ call' = [adapter |-> "CustomRerankingModel", method |-> "encode_queries",
                input |-> queries, kw |-> kw]
    /\ encode' = ModelEncode(queries,
                     [k \in {"prompt"} |-> QUERY_PROMPT],
                     pop(kw, "prompt_name"))
    /\ UNCHANGED <<statsVars, runVars>>

\* CustomRerankingModel.encode_corpus(self, corpus, *, prompt_name=None, **kwargs)
Rerank_encode_corpus(corpus, kw) ==
    /\ call' = [adapter |-> "CustomRerankingModel", method |-> "encode_corpus",
                input |-> corpus, kw |-> kw]
    /\ encode' = ModelEncode(corpus, <<>>, pop(kw, "prompt_name"))
    /\ UNCHANGED <<statsVars, runVars>>

Unbound == [kind |-> "unbound"]

\* The script before its first statement.
ScriptStart ==
    /\ pc = "load_model"
    /\ it = 0
    /\ task = Unbound
    /\ model = Unbound
    /\ retriever = Unbound
    /\ reranking_task = Unbound
    /\ self = Unbound
    /\ dataset = <<>>
    /\ loads = 0
    /\ released = 0
    /\ trace = <<>>
    /\ failed = Unbound

AdapterInit ==
    /\ call = NoCall
    /\ encode = NoCall
    /\ loaded = NoCall
    /\ ScriptStart

DRESQueries ==
    /\ call = NoCall
    /\ \E q \in SentenceLists, kw \in CallerKwargs : DRES_encode_queries(q, kw)

DRESCorpus ==
    /\ call = NoCall
    /\ \/ \E c \in Corpora : DRES_encode_corpus(c, EncodeKwargs)
       \/ \E c \in SeqsUpTo(Docs, 1), kw \in CallerKwargs : DRES_encode_corpus(c, kw)

RerankQueries ==
    /\ call = NoCall
    /\ \E q \in SentenceLists, kw \in CallerKwargs : Rerank_encode_queries(q, kw)

RerankCorpus ==
    /\ call = NoCall
    /\ \E c \in SentenceLists, kw \in CallerKwargs : Rerank_encode_corpus(c, kw)

\* The call returns to the evaluator; the adapters keep nothing between calls.
Return ==
    /\ call # NoCall
    /\ call' = NoCall
    /\ encode' = NoCall
    /\ UNCHANGED <<statsVars, runVars>>

AdapterNext == DRESQueries \/ DRESCorpus \/ RerankQueries \/ RerankCorpus \/ Return

SpecAdapter == AdapterInit /\ [][AdapterNext]_vars

-----------------------------------------------------------------------------
(* Properties of the adapters *)

IsCall(adapter, method) ==
    /\ call # NoCall
    /\ call.adapter = adapter
    /\ call.method = method

\* C1: for both adapters and all keyword arguments, encode_queries reaches the
\* base encoder with prompt = QUERY_PROMPT, and encode_corpus reaches it with
\* neither a prompt nor a prompt_name.
C1_PromptPolicy ==
    call # NoCall =>
        /\ encode.status = "called"
        /\ call.method = "encode_queries" =>
              /\ "prompt" \in DOMAIN encode.kw
              /\ encode.kw["prompt"] = QUERY_PROMPT
        /\ call.method = "encode_corpus" =>
              /\ "prompt" \notin DOMAIN encode.kw
              /\ "prompt_name" \notin DOMAIN encode.kw

\* C2: CustomDRESModel.encode_corpus never forwards a prompt_name entry to the
\* base encoder, and forwards batch size and the other entries unchanged.
C2_PromptNameDiscarded ==
    IsCall("CustomDRESModel", "encode_corpus") =>
        /\ encode.status = "called"
        /\ "prompt_name" \notin DOMAIN encode.kw
        /\ \A k \in DOMAIN call.kw \ {"prompt_name", "request_qid"} :
              /\ k \in DOMAIN encode.kw
              /\ encode.kw[k] = call.kw[k]

\* s is t without its leading and trailing whitespace: t is some spaces, then
\* s, then some spaces, and s neither starts nor ends with a space.
IsTrimOf(s, t) ==
    /\ s # <<>> => ~IsSpace(s[1]) /\ ~IsSpace(s[Len(s)])
    /\ \E a \in 0..Len(t) : \E b \in a..Len(t) :
          /\ s = SubSeq(t, a + 1, b)
          /\ \A k \in (1..a) \cup ((b + 1)..Len(t)) : IsSpace(t[k])

Trimmed(s) == s # <<>> /\ ~IsSpace(s[1]) /\ ~IsSpace(s[Len(s)])

\* C3: CustomDRESModel.encode_corpus submits one string per document, in corpus
\* order: title + ' ' + text trimmed, a missing title counting as empty; with an
\* empty or missing title that is exactly the trimmed text, and with title and
\* text both populated (and already trimmed) it is title, one space, text.
C3_CorpusSentences ==
    IsCall("CustomDRESModel", "encode_corpus") =>
        /\ encode.status = "called"
        /\ Len(encode.sentences) = Len(call.input)
        /\ \A i \in 1..Len(call.input) :
              LET doc   == call.input[i]
                  title == IF "title" \in DOMAIN doc THEN doc["title"] ELSE <<>>
                  text  == doc["text"]
                  sent  == encode.sentences[i]
              IN  /\ IsTrimOf(sent, title \o <<" ">> \o text)
                  /\ title = <<>> => IsTrimOf(sent, text)
                  /\ Trimmed(title) /\ Trimmed(text) =>
                        /\ Len(sent) = Len(title) + 1 + Len(text)
                        /\ SubSeq(sent, 1, Len(title)) = title
                        /\ sent[Len(title) + 1] = " "
                        /\ SubSeq(sent, Len(title) + 2, Len(sent)) = text

\* A two-document corpus, the first without a title, the second with title and
\* text, has been encoded.
C3_Witness ==
    /\ IsCall("CustomDRESModel", "encode_corpus")
    /\ Len(call.input) = 2
    /\ "title" \notin DOMAIN call.input[1]
    /\ call.input[1]["text"] = <<" ">>
    /\ "title" \in DOMAIN call.input[2]
    /\ call.input[2]["title"] = <<"a">>
    /\ call.input[2]["text"] = <<"a">>
    /\ encode.status = "called"
    /\ encode.sentences = << <<>>, <<"a", " ", "a">> >>

-----------------------------------------------------------------------------
(* RerankingTask.load_data *)

QueryStrings == {<<"q">>, <<"q", "q", "q">>}
PositiveStrings == {<<"a">>, <<"b", "b">>}
NegativeStrings == {<<"c">>}

\* A record of the split: a query, its positives and its negatives (at most
\* one negative, which still lets a negative recur across samples).
Samples(maxCands) ==
    [query : QueryStrings,
     positive : SeqsUpTo(PositiveStrings, maxCands),
     negative : SeqsUpTo(NegativeStrings, 1)]

RECURSIVE SumSeq(_)
SumSeq(s) == IF s = <<>> THEN 0 ELSE Head(s) + SumSeq(Tail(s))

RECURSIVE SumLen(_)
SumLen(S) == IF S = {} THEN 0
             ELSE LET x == CHOOSE x \in S : TRUE IN Len(x) + SumLen(S \ {x})

\* sum(len(p) for p in positive)
CountItems(sublists) == SumSeq([i \in 1..Len(sublists) |-> Len(sublists[i])])

\* Buggy variant: one entry per sample instead of one per distinct string.
UniqueSublists(sublists) == {sublists[i] : i \in 1..Len(sublists)}

\* set(item for sublist in positive for item in sublist)
UniqueItems(sublists) ==
    UNION {{sublists[i][j] : j \in 1..Len(sublists[i])} : i \in 1..Len(sublists)}

\* Buggy variant: the lengths of all occurrences over the number of occurrences.
AvgLenOccurrences(sublists) ==
    [sum |-> SumSeq([i \in 1..Len(sublists) |->
                        SumSeq([j \in 1..Len(sublists[i]) |-> Len(sublists[i][j])])]),
     n   |-> CountItems(sublists)]

\* sum(len(p) for p in unique_positive) / len(unique_positive), as sum and divisor
AvgLenUnique(sublists) ==
    [sum |-> SumLen(UniqueItems(sublists)),
     n   |-> Cardinality(UniqueItems(sublists))]

\* sum(len(q) for q in query) / len(query), as sum and divisor
AvgLenQuery(query) ==
    [sum |-> SumSeq([i \in 1..Len(query) |-> Len(query[i])]),
     n   |-> Len(query)]

\* A variant that guards the divisions: an average over nothing is reported as 0/1.
load_data_guarded(ds) ==
    LET positive == [i \in 1..Len(ds) |-> ds[i].positive]
        negative == [i \in 1..Len(ds) |-> ds[i].negative]
        Guard(avg) == IF avg.n = 0 THEN [sum |-> 0, n |-> 1] ELSE avg
    IN  [status |-> "returned",
         samples |-> ds,
         counts |-> [num_samples     |-> Len(ds),
                     num_positive    |-> CountItems(positive),
                     unique_positive |-> Cardinality(UniqueItems(positive)),
                     num_negative    |-> CountItems(negative),
                     unique_negative |-> Cardinality(UniqueItems(negative))],
         averages |-> [query    |-> Guard(AvgLenQuery([i \in 1..Len(ds) |-> ds[i].query])),
                       positive |-> Guard(AvgLenUnique(positive)),
                       negative |-> Guard(AvgLenUnique(negative))]]

\* load_data on the split read from disk: a division by zero raises before
\* anything is logged; otherwise the two statistics lines are logged (the three
\* example lines that follow carry no statistics) and the samples are returned.
load_data(ds) ==
    LET samples  == ds
        query    == [i \in 1..Len(samples) |-> samples[i].query]
        positive == [i \in 1..Len(samples) |-> samples[i].positive]
        negative == [i \in 1..Len(samples) |-> samples[i].negative]
        avg_query_len    == AvgLenQuery(query)
        avg_positive_len == AvgLenUnique(positive)
        avg_negative_len == AvgLenUnique(negative)
    IN  IF avg_query_len.n = 0 \/ avg_positive_len.n = 0 \/ avg_negative_len.n = 0
        THEN [status |-> "ZeroDivisionError"]
        ELSE [status |-> "returned",
              samples |-> samples,
              counts |-> [num_samples     |-> Len(query),
                          num_positive    |-> CountItems(positive),
                          unique_positive |-> Cardinality(UniqueItems(positive)),
                          num_negative    |-> CountItems(negative),
                          unique_negative |-> Cardinality(UniqueItems(negative))],
              averages |-> [query    |-> avg_query_len,
                            positive |-> avg_positive_len,
                            negative |-> avg_negative_len]]

StatsInit ==
    /\ call = NoCall
    /\ encode = NoCall
    /\ loaded = NoCall
    /\ ScriptStart

LoadData ==
    /\ loaded = NoCall
    /\ \E n \in 0..MaxSamples : \E ds \in [1..n -> Samples(MaxCands)] :
          loaded' = [status |-> "loaded", dataset |-> ds, result |-> load_data(ds)]
    /\ UNCHANGED <<adapterVars, runVars>>

LoadDataReturn ==
    /\ loaded # NoCall
    /\ loaded' = NoCall
    /\ UNCHANGED <<adapterVars, runVars>>

StatsNext == LoadData \/ LoadDataReturn

SpecStats == StatsInit /\ [][StatsNext]_vars

-----------------------------------------------------------------------------
(* Properties of the statistics *)

\* The positions (sample, index) of the candidates of a split.
Positions(sublists) ==
    UNION {{<<i, j>> : j \in 1..Len(sublists[i])} : i \in 1..Len(sublists)}

Before(p, q) == p[1] < q[1] \/ (p[1] = q[1] /\ p[2] < q[2])

\* The positions holding a string that occurs at no earlier position.
FirstOccurrences(sublists) ==
    {p \in Positions(sublists) :
        \A q \in Positions(sublists) :
            Before(q, p) => sublists[q[1]][q[2]] # sublists[p[1]][p[2]]}

RECURSIVE SumAt(_, _)
SumAt(sublists, P) ==
    IF P = {} THEN 0
    ELSE LET p == CHOOSE p \in P : TRUE
         IN Len(sublists[p[1]][p[2]]) + SumAt(sublists, P \ {p})

Returned == loaded # NoCall /\ loaded.result.status = "returned"

Field(ds, f) == [i \in 1..Len(ds) |-> ds[i][f]]

UniqueVsTotal(sublists, unique, total) ==
    /\ total = Cardinality(Positions(sublists))
    /\ unique = Cardinality(FirstOccurrences(sublists))
    /\ unique <= total
    /\ unique = total <=> FirstOccurrences(sublists) = Positions(sublists)

\* C7: the unique counts count each distinct candidate string once, wherever
\* it occurs, the totals count every occurrence; so unique <= total, with
\* equality exactly when no string is duplicated.
C7_UniqueByValue ==
    Returned =>
        /\ UniqueVsTotal(Field(loaded.dataset, "positive"),
                         loaded.result.counts.unique_positive,
                         loaded.result.counts.num_positive)
        /\ UniqueVsTotal(Field(loaded.dataset, "negative"),
                         loaded.result.counts.unique_negative,
                         loaded.result.counts.num_negative)

\* One positive string occurs in two different samples and another twice in one
\* sample: 4 positives in total, 2 unique.
C7_Witness ==
    /\ Returned
    /\ Len(loaded.dataset) = 2
    /\ loaded.dataset[1].positive = << <<"a">>, <<"b", "b">> >>
    /\ loaded.dataset[2].positive = << <<"a">>, <<"a">> >>
    /\ loaded.result.counts.num_positive = 4
    /\ loaded.result.counts.unique_positive = 2

\* avg is the quotient sum / n
IsQuotient(avg, sum, n) == avg.n # 0 /\ n # 0 /\ avg.sum * n = sum * avg.n

\* C8: the average positive (negative) length is the summed length of the
\* distinct strings over their number; the average query length is the summed
\* length of all queries over the number of samples.
C8_Averages ==
    Returned =>
        LET positive == Field(loaded.dataset, "positive")
            negative == Field(loaded.dataset, "negative")
            query    == Field(loaded.dataset, "query")
        IN  /\ IsQuotient(loaded.result.averages.positive,
                          SumAt(positive, FirstOccurrences(positive)),
                          Cardinality(FirstOccurrences(positive)))
            /\ IsQuotient(loaded.result.averages.negative,
                          SumAt(negative, FirstOccurrences(negative)),
                          Cardinality(FirstOccurrences(negative)))
            /\ IsQuotient(loaded.result.averages.query,
                          SumSeq([i \in 1..Len(query) |-> Len(query[i])]),
                          Len(loaded.dataset))

\* Positives "a", "a", "bb" and the query "q" twice: the positive average is
\* 3/2 (not 4/3) and the query average is 2/2.
C8_Witness ==
    /\ Returned
    /\ Len(loaded.dataset) = 2
    /\ loaded.dataset[1].query = <<"q">>
    /\ loaded.dataset[2].query = <<"q">>
    /\ loaded.dataset[1].positive = << <<"a">> >>
    /\ loaded.dataset[2].positive = << <<"a">>, <<"b", "b">> >>
    /\ loaded.result.averages.positive = [sum |-> 3, n |-> 2]
    /\ loaded.result.averages.query = [sum |-> 2, n |-> 2]

-----------------------------------------------------------------------------
(* The script: module-level statements in program order *)

RETRIEVAL_TASKS == <<"retrieval-s2p", "retrieval-p2p">>

RERANKING_TASKS == <<"reranking-s2p", "reranking-p2p">>

Str(v) == [kind |-> "str", value |-> v]

Event(ev, t, data) == [ev |-> ev, task |-> t, data |-> data]

None == [kind |-> "None"]

\* SentenceTransformer(model_name, ...) / load_model(model_name): a new instance
NewModel(n) == [kind |-> "SentenceTransformer", id |-> n + 1]

\* CustomDRESModel(model, prompt).__init__
CustomDRESModel(m, prompt) == [kind |-> "CustomDRESModel", model |-> m, prompt |-> prompt]

\* CustomRerankingModel(model, prompt).__init__
CustomRerankingModel(m, prompt) ==
    [kind |-> "CustomRerankingModel", model |-> m, prompt |-> prompt]

\* RetrievalTask(data_path, model_name, model_loaded=...): reads the task's
\* corpus, queries and relevance judgments; the model is one already loaded.
RetrievalTask(name, model_loaded) ==
    [kind |-> "RetrievalTask", data_path |-> name,
     loads |-> IF model_loaded THEN 0 ELSE 1]

\* An exception handler that skips to the next task instead of letting the
\* exception end the run.
CatchAndContinue(step, t) ==
    /\ failed' = [kind |-> "exception", step |-> step, task |-> t, at |-> Len(trace)]
    /\ pc' = IF t \in {RETRIEVAL_TASKS[i] : i \in 1..Len(RETRIEVAL_TASKS)}
             THEN "retrieval_for" ELSE "reranking_for"
    /\ UNCHANGED <<it, task, model, retriever, reranking_task, self, dataset, loads,
                   released, trace>>

\* A cleanup-on-failure variant: the device memory is released on the way out.
PropagateThenRelease(step, t) ==
    /\ failed' = [kind |-> "exception", step |-> step, task |-> t, at |-> Len(trace)]
    /\ pc' = "aborted"
    /\ released' = released + 1
    /\ UNCHANGED <<it, task, model, retriever, reranking_task, self, dataset, loads, trace>>

\* An exception raised in a statement: nothing in the script catches it, so it
\* leaves the module and the interpreter exits.
Propagate(step, t) ==
    /\ failed' = [kind |-> "exception", step |-> step, task |-> t, at |-> Len(trace)]
    /\ pc' = "aborted"
    /\ UNCHANGED <<it, task, model, retriever, reranking_task, self, dataset, loads,
                   released, trace>>

\* A for loop that finds its place from the (rebound) loop variable.
NextItemByName(tasks, i, bound) ==
    IF bound.kind = "str" THEN i + 1 ELSE Len(tasks) + 1

\* 'for task in TASKS': the iterator, not the name 'task', keeps the position.
NextItem(tasks, i, bound) == i + 1

\* model = SentenceTransformer(model_name, device='cuda', ...)
LoadModel ==
    /\ pc = "load_model"
    /\ \/ /\ model' = NewModel(loads)
          /\ loads' = loads + 1
          /\ trace' = Append(trace, Event("log:43", "none", None))
          /\ pc' = "make_retriever"
          /\ UNCHANGED <<it, task, retriever, reranking_task, self, dataset, released, failed>>
       \/ Propagate("SentenceTransformer", "none")
    /\ UNCHANGED <<adapterVars, statsVars>>

\* retriever = CustomDRESModel(model=model, prompt=QUERY_PROMPT)
MakeRetriever ==
    /\ pc = "make_retriever"
    /\ retriever' = CustomDRESModel(model, QUERY_PROMPT)
    /\ pc' = "retrieval_for"
    /\ it' = 0
    /\ UNCHANGED <<task, model, reranking_task, self, dataset, loads, released, trace, failed>>
    /\ UNCHANGED <<adapterVars, statsVars>>

\* for task in RETRIEVAL_TASKS: ... logger.info("Starting {task} task ...")
RetrievalFor ==
    /\ pc = "retrieval_for"
    /\ LET n == NextItem(RETRIEVAL_TASKS, it, task)
       IN  IF n <= Len(RETRIEVAL_TASKS)
           THEN /\ it' = n
                /\ task' = Str(RETRIEVAL_TASKS[n])
                /\ trace' = Append(trace, Event("log:91", RETRIEVAL_TASKS[n], None))
                /\ pc' = "retrieval_task"
           ELSE /\ pc' = "make_reranker"
                /\ UNCHANGED <<it, task, trace>>
    /\ UNCHANGED <<model, retriever, reranking_task, self, dataset, loads, released, failed>>
    /\ UNCHANGED <<adapterVars, statsVars>>

\* task = RetrievalTask(data_path, model_name, model_loaded=True); corpus, queries, qrels
RetrievalLoad ==
    /\ pc = "retrieval_task"
    /\ \/ /\ task' = RetrievalTask(RETRIEVAL_TASKS[it], TRUE)
          /\ loads' = loads + task'.loads
          /\ trace' = Append(trace, Event("RetrievalTask", RETRIEVAL_TASKS[it], None))
          /\ pc' = "retrieval_evaluator"
          /\ UNCHANGED <<it, model, retriever, reranking_task, self, dataset, released, failed>>
       \/ Propagate("RetrievalTask", RETRIEVAL_TASKS[it])
    /\ UNCHANGED <<adapterVars, statsVars>>

\* evaluator = RetrievalEvaluator(retriever=retriever, ...); evaluator(corpus, queries) starts
RetrievalEvaluate ==
    /\ pc = "retrieval_evaluator"
    /\ trace' = Append(trace, Event("RetrievalEvaluator", RETRIEVAL_TASKS[it], retriever))
    /\ pc' = "retrieval_results"
    /\ UNCHANGED <<it, task, model, retriever, reranking_task, self, dataset, loads,
                   released, failed>>
    /\ UNCHANGED <<adapterVars, statsVars>>

\* results = evaluator(corpus, queries) returns, or raises
RetrievalResults ==
    /\ pc = "retrieval_results"
    /\ \/ /\ pc' = "retrieval_scores"
          /\ UNCHANGED <<it, task, model, retriever, reranking_task, self, dataset, loads,
                         released, trace, failed>>
       \/ Propagate("RetrievalEvaluator", RETRIEVAL_TASKS[it])
    /\ UNCHANGED <<adapterVars, statsVars>>

\* scores = RetrievalEvaluator.evaluate(qrels, results, k_values=[...])
RetrievalScores ==
    /\ pc = "retrieval_scores"
    /\ \/ /\ trace' = Append(trace, Event("evaluate", RETRIEVAL_TASKS[it], None))
          /\ pc' = "retrieval_log"
          /\ UNCHANGED <<it, task, model, retriever, reranking_task, self, dataset, loads,
                         released, failed>>
       \/ Propagate("evaluate", RETRIEVAL_TASKS[it])
    /\ UNCHANGED <<adapterVars, statsVars>>

\* logger.info(f"\nScores:  {scores}")
RetrievalLog ==
    /\ pc = "retrieval_log"
    /\ trace' = Append(trace, Event("log:109", RETRIEVAL_TASKS[it], None))
    /\ pc' = "retrieval_for"
    /\ UNCHANGED <<it, task, model, retriever, reranking_task, self, dataset, loads,
                   released, failed>>
    /\ UNCHANGED <<adapterVars, statsVars>>

\* model = CustomRerankingModel(model=model, prompt=QUERY_PROMPT)
MakeReranker ==
    /\ pc = "make_reranker"
    /\ model' = CustomRerankingModel(model, QUERY_PROMPT)
    /\ pc' = "reranking_for"
    /\ it' = 0
    /\ UNCHANGED <<task, retriever, reranking_task, self, dataset, loads, released, trace,
                   failed>>
    /\ UNCHANGED <<adapterVars, statsVars>>

\* for task in RERANKING_TASKS: ... logger.info("Starting Reranking {task} task ...")
RerankingFor ==
    /\ pc = "reranking_for"
    /\ LET n == NextItem(RERANKING_TASKS, it, task)
       IN  IF n <= Len(RERANKING_TASKS)
           THEN /\ it' = n
                /\ task' = Str(RERANKING_TASKS[n])
                /\ trace' = Append(trace, Event("log:222", RERANKING_TASKS[n], None))
                /\ pc' = "reranking_task"
           ELSE /\ pc' = "del_model"
                /\ UNCHANGED <<it, task, trace>>
    /\ UNCHANGED <<model, retriever, reranking_task, self, dataset, loads, released, failed>>
    /\ UNCHANGED <<adapterVars, statsVars>>

\* The model a RerankingTask keeps, with the flag read the wrong way round.
InitModelInverted(m, model_loaded, n) ==
    IF model_loaded
    THEN [model |-> NewModel(n), loads |-> n + 1]
    ELSE [model |-> m, loads |-> n]

\* RerankingTask.__init__: 'if not model_loaded: self.model = load_model(model_name)
\* else: self.model = model', with the number of models loaded afterwards.
InitModel(m, model_loaded, n) ==
    IF ~model_loaded
    THEN [model |-> NewModel(n), loads |-> n + 1]
    ELSE [model |-> m, loads |-> n]

\* RerankingTask.__init__ begins: logger.info("Starting Reranking Task ..."); self.split = split
RerankingTaskStart ==
    /\ pc = "reranking_task"
    /\ self' = [kind |-> "RerankingTask", samples |-> <<>>, model |-> None]
    /\ trace' = Append(trace, Event("log:146", RERANKING_TASKS[it], None))
    /\ pc' = "load_from_disk"
    /\ UNCHANGED <<it, task, model, retriever, reranking_task, dataset, loads, released,
                   failed>>
    /\ UNCHANGED <<adapterVars, statsVars>>

\* load_data: dataset = load_from_disk(data_path); samples = [... dataset[split]]
LoadFromDisk ==
    /\ pc = "load_from_disk"
    /\ \/ \E n \in 0..MaxRunSamples : \E ds \in [1..n -> Samples(1)] :
            /\ dataset' = ds
            /\ trace' = Append(trace, Event("load_from_disk", RERANKING_TASKS[it], ds))
            /\ pc' = "statistics"
            /\ UNCHANGED <<it, task, model, retriever, reranking_task, self, loads,
                           released, failed>>
       \/ Propagate("load_from_disk", RERANKING_TASKS[it])
    /\ UNCHANGED <<adapterVars, statsVars>>

\* load_data: the statistics and their two log lines; self.samples = the samples
Statistics ==
    /\ pc = "statistics"
    /\ LET r == load_data(dataset)
       IN  IF r.status = "ZeroDivisionError"
           THEN Propagate("load_data", RERANKING_TASKS[it])
           ELSE /\ self' = [self EXCEPT !.samples = r.samples]
                /\ trace' = trace \o
                      << Event("log:189", RERANKING_TASKS[it], r.counts),
                         Event("log:193", RERANKING_TASKS[it], r.averages) >>
                /\ pc' = "init_model"
                /\ UNCHANGED <<it, task, model, retriever, reranking_task, dataset, loads,
                               released, failed>>
    /\ UNCHANGED <<adapterVars, statsVars>>

\* RerankingTask.__init__: choose self.model (the call passes model_loaded=True)
RerankingTaskModel ==
    /\ pc = "init_model"
    /\ LET r == InitModel(model, TRUE, loads)
       IN  /\ self' = [self EXCEPT !.model = r.model]
           /\ loads' = r.loads
    /\ pc' = "super_init"
    /\ UNCHANGED <<it, task, model, retriever, reranking_task, dataset, released, trace,
                   failed>>
    /\ UNCHANGED <<adapterVars, statsVars>>

\* super().__init__(self.samples, task_name=task_name, **kwargs)
RerankingTaskSuper ==
    /\ pc = "super_init"
    /\ \/ /\ pc' = "compute_scores"
          /\ UNCHANGED <<it, task, model, retriever, reranking_task, self, dataset, loads,
                         released, trace, failed>>
       \/ Propagate("RerankingEvaluator.__init__", RERANKING_TASKS[it])
    /\ UNCHANGED <<adapterVars, statsVars>>

\* compute_scores: scores = self(self.model) starts
ComputeScores ==
    /\ pc = "compute_scores"
    /\ trace' = Append(trace, Event("RerankingEvaluator", RERANKING_TASKS[it], self.model))
    /\ pc' = "scores_computed"
    /\ UNCHANGED <<it, task, model, retriever, reranking_task, self, dataset, loads,
                   released, failed>>
    /\ UNCHANGED <<adapterVars, statsVars>>

\* compute_scores: the evaluator returns and the scores are logged, or it raises
ScoresComputed ==
    /\ pc = "scores_computed"
    /\ \/ /\ trace' = Append(trace, Event("log:206", RERANKING_TASKS[it], None))
          /\ pc' = "reranking_log"
          /\ UNCHANGED <<it, task, model, retriever, reranking_task, self, dataset, loads,
                         released, failed>>
       \/ Propagate("RerankingEvaluator", RERANKING_TASKS[it])
    /\ UNCHANGED <<adapterVars, statsVars>>

\* reranking_task = RerankingTask(...); logger.info(f"\nScores: {reranking_task.scores}")
RerankingLog ==
    /\ pc = "reranking_log"
    /\ reranking_task' = self
    /\ trace' = Append(trace, Event("log:235", RERANKING_TASKS[it], None))
    /\ pc' = "reranking_for"
    /\ UNCHANGED <<it, task, model, retriever, self, dataset, loads, released, failed>>
    /\ UNCHANGED <<adapterVars, statsVars>>

\* del model
DelModel ==
    /\ pc = "del_model"
    /\ model' = Unbound
    /\ pc' = "empty_cache"
    /\ UNCHANGED <<it, task, retriever, reranking_task, self, dataset, loads, released,
                   trace, failed>>
    /\ UNCHANGED <<adapterVars, statsVars>>

\* torch.cuda.empty_cache()
EmptyCache ==
    /\ pc = "empty_cache"
    /\ \/ /\ released' = released + 1
          /\ trace' = Append(trace, Event("empty_cache", "none", None))
          /\ pc' = "done"
          /\ UNCHANGED <<it, task, model, retriever, reranking_task, self, dataset, loads,
                         failed>>
       \/ Propagate("empty_cache", "none")
    /\ UNCHANGED <<adapterVars, statsVars>>

Init ==
    /\ call = NoCall
    /\ encode = NoCall
    /\ loaded = NoCall
    /\ ScriptStart

Next ==
    \/ LoadModel
    \/ MakeRetriever
    \/ RetrievalFor
    \/ RetrievalLoad
    \/ RetrievalEvaluate
    \/ RetrievalResults
    \/ RetrievalScores
    \/ RetrievalLog
    \/ MakeReranker
    \/ RerankingFor
    \/ RerankingTaskStart
    \/ LoadFromDisk
    \/ Statistics
    \/ RerankingTaskModel
    \/ RerankingTaskSuper
    \/ ComputeScores
    \/ ScoresComputed
    \/ RerankingLog
    \/ DelModel
    \/ EmptyCache

Spec == Init /\ [][Next]_vars

-----------------------------------------------------------------------------
(* Properties of the script *)

TaskOrder == RETRIEVAL_TASKS \o RERANKING_TASKS

\* Position of a task in the run, 0 for a statement outside every task.
TaskIndex(t) == IF \E i \in 1..Len(TaskOrder) : TaskOrder[i] = t
                THEN CHOOSE i \in 1..Len(TaskOrder) : TaskOrder[i] = t
                ELSE 0

ScoreLogs == {"log:109", "log:206", "log:235"}

StartLogs == {"log:91", "log:222"}

Happened(ev, t) == \E k \in 1..Len(trace) : trace[k].ev = ev /\ trace[k].task = t

\* C4: a failure in any step ends the run: nothing is executed after it (no
\* later step of the task, no step of a later task, no release), no score of the
\* failed task is logged and the task is not started again.
C4_AbortOnFailure ==
    failed # Unbound =>
        /\ pc = "aborted"
        /\ Len(trace) = failed.at
        /\ released = 0
        /\ \A k \in 1..Len(trace) :
              /\ TaskIndex(failed.task) # 0 =>
                    /\ TaskIndex(trace[k].task) <= TaskIndex(failed.task)
                    /\ trace[k].task = failed.task => trace[k].ev \notin ScoreLogs
              /\ \A j \in 1..Len(trace) :
                    (/\ trace[k].ev \in StartLogs
                     /\ trace[j].ev \in StartLogs
                     /\ trace[k].task = trace[j].task) => j = k

\* The evaluator of the second retrieval task raised.
C4_Witness ==
    /\ failed # Unbound
    /\ failed.task = "retrieval-p2p"
    /\ failed.step = "RetrievalEvaluator"
    /\ Happened("log:109", "retrieval-s2p")
    /\ pc = "aborted"

IsMilestone(e) == e.ev \in {"log:91", "RetrievalTask", "log:109",
                            "log:222", "load_from_disk", "log:235"}

\* The task starts, data loads and final score lines of the run, in order.
Milestones ==
    LET m == SelectSeq(trace, IsMilestone)
    IN  [k \in 1..Len(m) |-> <<m[k].ev, m[k].task>>]

ExpectedMilestones ==
    << <<"log:91", "retrieval-s2p">>, <<"RetrievalTask", "retrieval-s2p">>,
       <<"log:109", "retrieval-s2p">>,
       <<"log:91", "retrieval-p2p">>, <<"RetrievalTask", "retrieval-p2p">>,
       <<"log:109", "retrieval-p2p">>,
       <<"log:222", "reranking-s2p">>, <<"load_from_disk", "reranking-s2p">>,
       <<"log:235", "reranking-s2p">>,
       <<"log:222", "reranking-p2p">>, <<"load_from_disk", "reranking-p2p">>,
       <<"log:235", "reranking-p2p">> >>

IsPrefix(s, t) == Len(s) <= Len(t) /\ s = SubSeq(t, 1, Len(s))

\* C5: the tasks run one after another in list order, each once: retrieval-s2p,
\* retrieval-p2p, reranking-s2p, reranking-p2p; a task's score is logged before
\* the next task's data is loaded, and a run without failure runs all four.
C5_TaskOrder ==
    /\ IsPrefix(Milestones, ExpectedMilestones)
    /\ (failed = Unbound /\ pc \in {"del_model", "empty_cache", "done"}) =>
            Milestones = ExpectedMilestones

\* A run without failure has ended.
C5_Witness ==
    /\ pc = "done"
    /\ failed = Unbound
    /\ Len(Milestones) = 12

\* C6: the device memory is released exactly once, after every retrieval and
\* reranking task has logged its score, and never in a run that aborts.
C6_ReleaseOnce ==
    /\ released <= 1
    /\ released = 1 =>
          /\ pc = "done"
          /\ failed = Unbound
          /\ model = Unbound
          /\ \A i \in 1..Len(RETRIEVAL_TASKS) : Happened("log:109", RETRIEVAL_TASKS[i])
          /\ \A i \in 1..Len(RERANKING_TASKS) : Happened("log:235", RERANKING_TASKS[i])
    /\ pc = "done" => released = 1
    /\ pc = "aborted" => released = 0

\* The cache was emptied as the last thing the run did.
C6_Witness ==
    /\ released = 1
    /\ trace # <<>>
    /\ trace[Len(trace)].ev = "empty_cache"

IsFirstModel(m) == m.kind = "SentenceTransformer" /\ m.id = 1

\* C9: one embedding model is loaded in a run; the retrieval evaluator of every
\* retrieval task gets the retrieval adapter and the reranking evaluator of
\* every reranking task gets the reranking adapter, both prompted with
\* QUERY_PROMPT and both wrapping that one model.
C9_SingleModel ==
    /\ loads <= 1
    /\ pc \notin {"load_model", "aborted"} => loads = 1
    /\ \A k \in 1..Len(trace) :
          /\ trace[k].ev = "RetrievalEvaluator" =>
                /\ trace[k].data.kind = "CustomDRESModel"
                /\ trace[k].data.prompt = QUERY_PROMPT
                /\ IsFirstModel(trace[k].data.model)
          /\ trace[k].ev = "RerankingEvaluator" =>
                /\ trace[k].data.kind = "CustomRerankingModel"
                /\ trace[k].data.prompt = QUERY_PROMPT
                /\ IsFirstModel(trace[k].data.model)
                /\ trace[k].data.model = retriever.model

\* Both phases have run their evaluators.
C9_Witness ==
    /\ pc = "done"
    /\ loads = 1
    /\ Happened("RetrievalEvaluator", "retrieval-p2p")
    /\ Happened("RerankingEvaluator", "reranking-p2p")

\* A split without samples, without any positive, or without any negative.
Degenerate(ds) ==
    \/ Len(ds) = 0
    \/ \A i \in 1..Len(ds) : ds[i].positive = <<>>
    \/ \A i \in 1..Len(ds) : ds[i].negative = <<>>

\* C10: the reranking evaluator is invoked only after both statistics lines of
\* its task were logged; a split without samples, without positives or without
\* negatives makes load_data raise, so that nothing follows its loading: no
\* evaluator call and no score, for that task or a later one.
C10_StatisticsFirst ==
    \A k \in 1..Len(trace) :
        /\ trace[k].ev = "RerankingEvaluator" =>
              \E i \in 1..k : \E j \in i..k :
                  /\ i < j /\ j < k
                  /\ trace[i].ev = "log:189" /\ trace[i].task = trace[k].task
                  /\ trace[j].ev = "log:193" /\ trace[j].task = trace[k].task
        /\ (trace[k].ev = "load_from_disk" /\ Degenerate(trace[k].data)) =>
              /\ k = Len(trace)
              /\ pc \in {"statistics", "aborted"}
              /\ pc = "aborted" => failed.step = "load_data"

\* The second reranking task read a split whose only sample has no positive,
\* and load_data raised.
C10_Witness ==
    /\ pc = "aborted"
    /\ failed.step = "load_data"
    /\ failed.task = "reranking-p2p"
    /\ Len(dataset) = 1
    /\ dataset[1].positive = <<>>
    /\ dataset[1].negative # <<>>

====
